---- MODULE Spec2Model ----
(***************************************************************************)
(* A model of the mistral-playground backend: the RAG collection stores    *)
(* (RAGService on its three backends, FAISSService, RAGServiceFAISS), the  *)
(* RAG query path and the model download tracker.                          *)
(***************************************************************************)
EXTENDS Integers, Sequences, FiniteSets, TLC

\* ------------------------------------------------------------------ bounds
\* Chunks one uploaded document splits into (0: the splitter returns no chunk).
MaxChunks == 2
\* Ingestion calls in one run of the ingestion specification; each gets its
\* own tag.
MaxUploads == 2
\* Characters that follow the run of letters in a name to sanitize.
MaxTail == 3
\* Model names one comparison request lists.
MaxModels == 3
\* Download tasks created in one run of the download specification.
MaxTasks == 3
\* Direct calls of a stand-alone store's ingestion in one run.
MaxCalls == 1
\* Ingestion calls in one run of the management specification.
ManageUploads == 1
\* Ingestion calls in one run of the query specification.
QueryUploads == 1

\* ------------------------------------------------------- program constants
TopKMin == 1
TopKMax == 20

\* The collection names requests use.
Names == {"a", "b"}

\* RAGService picks one backend in __init__; FAISSService and RAGServiceFAISS
\* are the two stand-alone stores of the repository.
RagBackends == {"chroma", "faiss", "simple"}
Backends == RagBackends \cup {"faiss_service", "rag_service_faiss"}

\* What an external call of an ingestion does: nothing wrong, the embedding
\* model fails to load, or the vector index refuses the vectors.
Faults == {"none", "embed", "add"}

VARIABLES
    backend,      \* the store implementation this process runs
    collections,  \* name -> the collection's parallel lists
    pending,      \* upload requests suspended in the endpoint
    nextId,       \* tag of the next ingestion call
    quota,        \* ingestion calls this run may make
    named,        \* names some upload request has used
    failed,       \* names an ingestion has failed on
    last,         \* what the handler that has just returned answered
    download_status,   \* model name -> the tracker's record
    active_downloads,  \* model name -> the handle of its download task
    tasks,             \* the download tasks created so far
    model_dirs,        \* the directories under ./models
    markers,           \* the directories that hold download_complete.json
    api_key,           \* whether a Hugging Face token is configured
    reply,             \* what the tracker call that has just returned answered
    call_in,           \* the arguments of the one call a single-call run makes
    call_out,          \* that call's answer, once it has returned
    prompt_configs,    \* the ids of the stored prompt configurations
    transformers_models,  \* the names whose Hugging Face model is in memory
    tokenizers            \* the names whose tokenizer is in memory

svars == <<backend, collections, pending, nextId, quota, named, failed, last>>
dvars == <<download_status, active_downloads, tasks, model_dirs, markers,
           api_key, reply>>
mvars == <<transformers_models, tokenizers>>
pvars == <<call_in, call_out, prompt_configs, mvars>>
vars == <<svars, dvars, pvars>>

\* ------------------------------------------------------------- collections
Absent ==
    [exists |-> FALSE, documents |-> <<>>, metadatas |-> <<>>,
     ids |-> <<>>, vectors |-> <<>>, meta |-> 0]

EmptyCollection == [Absent EXCEPT !.exists = TRUE]

\* A collection as the call numbered tag creates it: meta names the call
\* whose description, tags and is_public it stores and whose time is its
\* created_at.
Created(tag) == [EmptyCollection EXCEPT !.meta = tag]

\* n entries of one ingestion call.
Block(tag, n) == [i \in 1..n |-> tag]

NoResult ==
    [op |-> "none", coll |-> "", status |-> "", http |-> 0, err |-> "",
     n |-> 0, bound |-> 0, args |-> <<>>, answer |-> "", gen |-> FALSE,
     genFailed |-> FALSE, ret |-> ""]

\* No single call is made in this run / the call has not returned yet.
NoCall == [done |-> FALSE, value |-> <<>>]
Returned(v) == [done |-> TRUE, value |-> v]
\* ModelService.__init__: no model and no tokenizer is in memory.
NoModelLoaded == transformers_models = {} /\ tokenizers = {}
NoSingleCall ==
    call_in = <<>> /\ call_out = NoCall /\ prompt_configs = {} /\ NoModelLoaded

Outcome(col, status, err) == [coll |-> col, status |-> status, err |-> err]

\* ---------------------------------------------------------------- ingestion
\* A variant of _process_document_faiss that awaits between the append loop
\* and index.add.
SuspendsInAppendAwait(b) == b = "faiss"

\* Whether the coroutine yields to the event loop between appending the chunk
\* texts and adding their vectors. _process_document_faiss has no await there.
SuspendsInAppend(b) == FALSE

\* RAGService.process_document on ChromaDB: get_or_create_collection, then the
\* embedding model, then one collection.add of equally long lists. ChromaDB
\* rejects an add of empty lists and leaves the collection as it was. Every
\* call hands get_or_create_collection the metadata it was given and a new
\* created_at; the ChromaDB releases differ on an existing collection, some
\* store that metadata (modifies) and some ignore it.
ProcessChroma(col, tag, n, fault, modifies) ==
    LET c1 == IF ~col.exists THEN Created(tag)
              ELSE IF modifies THEN [col EXCEPT !.meta = tag] ELSE col
    IN  IF fault = "embed" THEN Outcome(c1, "error", "embedding")
        ELSE IF n = 0 \/ fault = "add" THEN Outcome(c1, "error", "add")
        ELSE Outcome([c1 EXCEPT !.documents = @ \o Block(tag, n),
                                !.metadatas = @ \o Block(tag, n),
                                !.ids = @ \o Block(tag, n),
                                !.vectors = @ \o Block(tag, n)], "ok", "none")

\* RAGService._process_document_faiss up to the end of the append loop: the
\* embeddings are computed first (of no chunk they have no second dimension,
\* which creating a collection reads), then the texts, metadata records and
\* ids are appended.
FaissAppendTexts(col, tag, n, fault) ==
    IF fault = "embed" THEN Outcome(col, "error", "embedding")
    ELSE IF ~col.exists /\ n = 0 THEN Outcome(col, "error", "shape")
    ELSE LET c1 == IF col.exists THEN col ELSE Created(tag)
         IN  Outcome([c1 EXCEPT !.documents = @ \o Block(tag, n),
                                !.metadatas = @ \o Block(tag, n),
                                !.ids = @ \o Block(tag, n)], "ok", "none")

\* RAGService._process_document_faiss from index.add on: the index raises on
\* an array of no vector and when the add fails.
FaissAddVectors(col, tag, n, fault) ==
    IF n = 0 \/ fault = "add" THEN Outcome(col, "error", "add")
    ELSE Outcome([col EXCEPT !.vectors = @ \o Block(tag, n)], "ok", "none")

ProcessFaiss(col, tag, n, fault) ==
    LET r == FaissAppendTexts(col, tag, n, fault)
    IN  IF r.status = "error" THEN r ELSE FaissAddVectors(r.coll, tag, n, fault)

\* RAGService._process_document_simple: no embedding, no vector index.
ProcessSimple(col, tag, n, fault) ==
    LET c1 == IF col.exists THEN col ELSE Created(tag)
    IN  Outcome([c1 EXCEPT !.documents = @ \o Block(tag, n),
                           !.metadatas = @ \o Block(tag, n),
                           !.ids = @ \o Block(tag, n)], "ok", "none")

\* RAGServiceFAISS.process_document: the index is created, then the vectors
\* are added, then the chunk records and the metadata records are appended.
ProcessRagFaiss(col, tag, n, fault) ==
    IF fault = "embed" THEN Outcome(col, "error", "embedding")
    ELSE IF ~col.exists /\ n = 0 THEN Outcome(col, "error", "shape")
    ELSE LET c1 == IF col.exists THEN col ELSE Created(tag)
         IN  IF n = 0 \/ fault = "add" THEN Outcome(c1, "error", "add")
             ELSE Outcome([c1 EXCEPT !.vectors = @ \o Block(tag, n),
                                     !.documents = @ \o Block(tag, n),
                                     !.ids = @ \o Block(tag, n),
                                     !.metadatas = @ \o Block(tag, n)],
                          "ok", "none")

\* RAGService.process_document: the backend chosen at start decides the path.
ProcessDocument(b, col, tag, n, fault, modifies) ==
    CASE b = "chroma" -> ProcessChroma(col, tag, n, fault, modifies)
      [] b = "faiss" -> ProcessFaiss(col, tag, n, fault)
      [] OTHER -> ProcessSimple(col, tag, n, fault)

\* FAISSService.create_collection.
CreateCollection(col, tag) ==
    IF col.exists THEN Outcome(col, "error", "exists")
    ELSE Outcome(Created(tag), "ok", "none")

\* FAISSService.add_to_collection with nd documents, ne embeddings and nm
\* metadata records (0: the default, one empty record per document); the ids
\* are the default ones, one per document.
AddToCollection(col, tag, nd, ne, nm, fault) ==
    IF ~col.exists THEN Outcome(col, "error", "not_found")
    ELSE IF ne = 0 \/ fault = "add" THEN Outcome(col, "error", "add")
    ELSE Outcome([col EXCEPT !.vectors = @ \o Block(tag, ne),
                             !.documents = @ \o Block(tag, nd),
                             !.metadatas = @ \o Block(tag, IF nm = 0 THEN nd ELSE nm),
                             !.ids = @ \o Block(tag, nd)], "ok", "none")

\* The answer of an ingestion handler. The upload endpoint turns every
\* exception into an HTTP 500; the stand-alone services raise to their caller.
IngestResult(b, op, c, r, n) ==
    [NoResult EXCEPT !.op = op, !.coll = c, !.status = r.status,
                     !.http = IF b \in RagBackends
                              THEN (IF r.status = "ok" THEN 200 ELSE 500) ELSE 0,
                     !.err = r.err, !.n = n, !.bound = Len(r.coll.documents)]

\* ------------------------------------------------------------------ actions
\* POST /rag/upload up to `await file.read()`.
UploadStart(c, n) ==
    /\ backend \in RagBackends
    /\ last = NoResult
    /\ nextId <= quota
    /\ pending' = pending \cup {[id |-> nextId, coll |-> c, n |-> n, pc |-> "read"]}
    /\ nextId' = nextId + 1
    /\ named' = named \cup {c}
    /\ UNCHANGED <<dvars, pvars, backend, quota, collections, failed, last>>

\* The rest of POST /rag/upload: process_document and the response.
UploadProcess(p, fault, modifies) ==
    /\ last = NoResult
    /\ p \in pending
    /\ LET col == collections[p.coll]
           r == IF p.pc = "appended"
                THEN FaissAddVectors(col, p.id, p.n, fault)
                ELSE IF backend = "faiss" /\ SuspendsInAppend(backend)
                THEN FaissAppendTexts(col, p.id, p.n, fault)
                ELSE ProcessDocument(backend, col, p.id, p.n, fault, modifies)
           yields == /\ p.pc = "read"
                     /\ backend = "faiss"
                     /\ SuspendsInAppend(backend)
                     /\ r.status = "ok"
       IN  /\ collections' = [collections EXCEPT ![p.coll] = r.coll]
           /\ IF yields
              THEN /\ pending' = (pending \ {p}) \cup {[p EXCEPT !.pc = "appended"]}
                   /\ UNCHANGED <<failed, last>>
              ELSE /\ pending' = pending \ {p}
                   /\ failed' = IF r.status = "error" THEN failed \cup {p.coll} ELSE failed
                   /\ last' = IngestResult(backend, "upload", p.coll, r, p.n)
    /\ UNCHANGED <<dvars, pvars, backend, quota, nextId, named>>

\* The file checks of upload_document: the extension of the file name, lower
\* cased, then the size of the content.
AllowedExtensions == {".pdf", ".txt", ".md"}
FileNameExtensions == {".pdf", ".TXT", ".md", ".exe", ""}
MaxUploadBytes == 50 * 1024 * 1024
ContentSizes == {0, 1, MaxUploadBytes, MaxUploadBytes + 1}

\* str.lower() on the extensions file names carry.
Lower(ext) == IF ext = ".TXT" THEN ".txt" ELSE ext

ValidateFile(ext, size) ==
    IF Lower(ext) \notin AllowedExtensions THEN "file_type"
    ELSE IF size > MaxUploadBytes THEN "too_large"
    ELSE IF size = 0 THEN "empty"
    ELSE "ok"

\* POST /rag/upload of a file one of the checks refuses: the check raises
\* HTTPException(400) inside the handler's `try`, whose `except Exception`
\* answers every exception with an HTTP 500. The store is not touched.
UploadRejected(c, ext, size) ==
    /\ backend \in RagBackends
    /\ last = NoResult
    /\ ValidateFile(ext, size) # "ok"
    /\ last' = [NoResult EXCEPT !.op = "upload", !.coll = c, !.status = "error",
                                !.http = 500, !.err = ValidateFile(ext, size),
                                !.bound = Len(collections[c].documents)]
    /\ UNCHANGED <<dvars, pvars, backend, quota, collections, pending, nextId,
                   named, failed>>

\* RAGServiceFAISS.process_document, called directly.
RagFaissProcess(c, n, fault) ==
    /\ backend = "rag_service_faiss"
    /\ last = NoResult
    /\ nextId <= quota
    /\ LET r == ProcessRagFaiss(collections[c], nextId, n, fault)
       IN  /\ collections' = [collections EXCEPT ![c] = r.coll]
           /\ failed' = IF r.status = "error" THEN failed \cup {c} ELSE failed
           /\ last' = IngestResult(backend, "upload", c, r, n)
    /\ nextId' = nextId + 1
    /\ named' = named \cup {c}
    /\ UNCHANGED <<dvars, pvars, backend, quota, pending>>

\* FAISSService.create_collection, called directly.
FsvcCreate(c) ==
    /\ backend = "faiss_service"
    /\ last = NoResult
    /\ LET r == CreateCollection(collections[c], nextId)
       IN  /\ collections' = [collections EXCEPT ![c] = r.coll]
           /\ last' = IngestResult(backend, "create", c, r, 0)
    /\ UNCHANGED <<dvars, pvars, backend, quota, pending, nextId, named, failed>>

\* FAISSService.add_to_collection, called directly.
FsvcAdd(c, nd, ne, nm, fault) ==
    /\ backend = "faiss_service"
    /\ last = NoResult
    /\ nextId <= quota
    /\ LET r == AddToCollection(collections[c], nextId, nd, ne, nm, fault)
       IN  /\ collections' = [collections EXCEPT ![c] = r.coll]
           /\ failed' = IF r.status = "error" THEN failed \cup {c} ELSE failed
           /\ last' = [IngestResult(backend, "add", c, r, nd)
                          EXCEPT !.args = <<nd, ne, nm>>]
    /\ nextId' = nextId + 1
    /\ named' = named \cup {c}
    /\ UNCHANGED <<dvars, pvars, backend, quota, pending>>


\* -------------------------------------------------------------------- query
Min(a, b) == IF a <= b THEN a ELSE b

\* What the provider call inside generate_response does.
ProviderCalls == {"text", "blank", "raises"}
\* RAGRequest.provider is Optional[str]: a provider name, or null.
Providers == {"huggingface", "null"}

\* ModelService.generate_response: an exception of the provider call becomes an
\* error ModelResponse ("Sorry, I encountered an error ..."); that response is a
\* ModelResponse(provider=request.provider), which pydantic refuses to build for
\* a null provider, so for it the call raises out of generate_response.
GenerateResponse(provider, call) ==
    IF provider = "null" THEN "raised"
    ELSE CASE call = "text" -> "text"
           [] call = "blank" -> "blank"
           [] OTHER -> "sorry"

\* The generate step of the three RAGService query paths and the RAGResponse
\* built after it: a blank text is replaced, an exception gives the apology
\* answer, and the response reads the token counts of model_response, which no
\* one has bound when generate_response raised.
Generate(provider, call) ==
    LET g == GenerateResponse(provider, call)
        answer == CASE g = "text" -> "text"
                    [] g = "blank" -> "trouble"
                    [] g = "sorry" -> "sorry"
                    [] OTHER -> "apology"
    IN  [answer |-> answer,
         failed |-> g \in {"sorry", "raised"},
         status |-> IF g = "raised" THEN "error" ELSE "ok",
         err |-> IF g = "raised" THEN "unbound_model_response" ELSE "none"]

\* The retrieve step: [status, err, n]. ChromaDB answers with at most
\* n_results documents, fewer when the collection holds fewer.
RetrieveChroma(col, k, fault) ==
    IF ~col.exists THEN [status |-> "error", err |-> "not_found", n |-> 0]
    ELSE IF fault = "embed" THEN [status |-> "error", err |-> "embedding", n |-> 0]
    ELSE [status |-> "ok", err |-> "none", n |-> Min(k, Len(col.documents))]

\* _query_rag_faiss searches the index for k = top_k neighbours. FAISS fills
\* the places it has no vector for with the label -1, and the loop keeps every
\* label below len(documents): -1 reads the last document.
RetrieveFaiss(col, k, fault) ==
    IF ~col.exists THEN [status |-> "error", err |-> "not_found", n |-> 0]
    ELSE IF fault = "embed" THEN [status |-> "error", err |-> "embedding", n |-> 0]
    ELSE LET found == Min(k, Len(col.vectors))
             padded == k - found
         IN  IF padded > 0 /\ Len(col.documents) = 0
             THEN [status |-> "error", err |-> "index", n |-> 0]
             ELSE [status |-> "ok", err |-> "none",
                   n |-> Min(found, Len(col.documents)) + padded]

\* A variant of _query_rag_simple without the membership test of its first
\* lines.
RetrieveSimpleUnchecked(col, k, m) ==
    [status |-> "ok", err |-> "none",
     n |-> IF m > 0 THEN Min(k, m) ELSE Min(k, Len(col.documents))]

\* _query_rag_simple: the top_k best of the m chunks that hold a query term,
\* or, when none does, the first top_k chunks.
RetrieveSimple(col, k, m) ==
    IF ~col.exists THEN [status |-> "error", err |-> "not_found", n |-> 0]
    ELSE [status |-> "ok", err |-> "none",
          n |-> IF m > 0 THEN Min(k, m) ELSE Min(k, Len(col.documents))]

Retrieve(b, col, k, m, fault) ==
    CASE b = "chroma" -> RetrieveChroma(col, k, fault)
      [] b = "faiss" -> RetrieveFaiss(col, k, fault)
      [] OTHER -> RetrieveSimple(col, k, m)

\* FAISSService.query_collection: nothing to search gives empty lists;
\* otherwise min(n_results, len(documents)) labels are read from the three
\* lists, and a label one of them is too short for raises.
QueryCollection(col, k, oob) ==
    IF ~col.exists THEN [status |-> "error", err |-> "not_found", n |-> 0]
    ELSE IF Len(col.vectors) = 0 \/ Len(col.documents) = 0
    THEN [status |-> "ok", err |-> "none", n |-> 0]
    ELSE IF oob THEN [status |-> "error", err |-> "index", n |-> 0]
    ELSE [status |-> "ok", err |-> "none", n |-> Min(k, Len(col.documents))]

\* RAGServiceFAISS.query_rag: [status, err, gen]. An empty collection is
\* answered with a RAGResponse that lacks two required fields, and the request
\* built for the generation reads request.top_p, a field RAGRequest does not
\* have: both raise, the second before generate_response is called.
QueryRagFaiss(col, k, fault) ==
    IF fault = "embed" THEN [status |-> "error", err |-> "embedding", gen |-> FALSE]
    ELSE IF ~col.exists THEN [status |-> "error", err |-> "not_found", gen |-> FALSE]
    ELSE IF Min(k, Len(col.documents)) = 0
    THEN [status |-> "error", err |-> "response_invalid", gen |-> FALSE]
    ELSE [status |-> "error", err |-> "attribute", gen |-> FALSE]

\* POST /rag/query: RAGService.query_rag; the endpoint answers every exception
\* with an HTTP 500 whose detail is the exception's text.
QueryRag(c, k, m, fault, provider, call) ==
    /\ backend \in RagBackends
    /\ last = NoResult
    /\ (backend # "simple" => m = 0)
    /\ (backend = "simple" => fault = "none" /\ m <= Len(collections[c].documents))
    /\ LET col == collections[c]
           r == Retrieve(backend, col, k, m, fault)
           g == Generate(provider, call)
           q == [NoResult EXCEPT !.op = "query", !.coll = c, !.n = r.n,
                                 !.bound = Min(k, Len(col.documents))]
       IN  last' = IF r.status = "error"
                   THEN [q EXCEPT !.status = "error", !.http = 500, !.err = r.err]
                   ELSE [q EXCEPT !.status = g.status,
                                  !.http = IF g.status = "ok" THEN 200 ELSE 500,
                                  !.err = g.err, !.answer = g.answer,
                                  !.gen = TRUE, !.genFailed = g.failed]
    /\ UNCHANGED <<dvars, pvars, backend, quota, collections, pending, nextId, named, failed>>

\* FAISSService.query_collection, called directly.
FsvcQuery(c, k, oob) ==
    /\ backend = "faiss_service"
    /\ last = NoResult
    /\ LET col == collections[c]
           r == QueryCollection(col, k, oob)
       IN  /\ oob => Len(col.vectors) > Min(Len(col.documents), Len(col.metadatas))
           /\ last' = [NoResult EXCEPT !.op = "query", !.coll = c, !.n = r.n,
                                       !.bound = Min(k, Len(col.documents)),
                                       !.status = r.status, !.err = r.err]
    /\ UNCHANGED <<dvars, pvars, backend, quota, collections, pending, nextId, named, failed>>

\* RAGServiceFAISS.query_rag, called directly.
RagFaissQuery(c, k, fault) ==
    /\ backend = "rag_service_faiss"
    /\ last = NoResult
    /\ LET col == collections[c]
           r == QueryRagFaiss(col, k, fault)
       IN  last' = [NoResult EXCEPT !.op = "query", !.coll = c,
                                    !.bound = Min(k, Len(col.documents)),
                                    !.status = r.status, !.err = r.err,
                                    !.gen = r.gen]
    /\ UNCHANGED <<dvars, pvars, backend, quota, collections, pending, nextId, named, failed>>

TopKs == TopKMin..TopKMax

\* The handler's answer reaches its caller; the event loop runs the next one.
Respond ==
    /\ last # NoResult
    /\ last' = NoResult
    /\ UNCHANGED <<dvars, pvars, backend, quota, collections, pending, nextId, named, failed>>

\* The chunks of a collection that may hold a query term: the lexical
\* fallback alone looks at the terms.
MatchCounts(c) ==
    IF backend = "simple" THEN 0..Len(collections[c].documents) ELSE {0}

\* The external failures a query can meet: loading the embedding model.
QueryFaults == IF backend = "simple" THEN {"none"} ELSE {"none", "embed"}

\* --------------------------------------------------------- download tracker
\* Model names are character sequences: an open model and a model of the
\* gated_models list.
ModelNames == {<<"o", "/", "m">>, <<"g", "/", "l">>}
GatedModels == {<<"g", "/", "l">>}

\* model_name.replace("/", "_"), the directory of a model under ./models.
DirName(m) == [i \in DOMAIN m |-> IF m[i] = "/" THEN "_" ELSE m[i]]

\* A variant of is_model_downloaded that never finds the marker.
IsModelDownloadedNever(m) == FALSE

\* DownloadService.is_model_downloaded: download_complete.json exists in the
\* model's directory.
IsModelDownloaded(m) == DirName(m) \in markers

NoStatus ==
    [status |-> "none", progress |-> 0, bytes_downloaded |-> 0, total_bytes |-> 0]

\* bytes_downloaded and total_bytes are counted in units of 25,000,000 bytes:
\* the loop stores int(progress * 25_000_000) and 25_000_000.
BytesPerPoint == 1
TotalBytes == 1
NoTask == 0
NoReply == [op |-> "none", model |-> <<>>, status |-> "", ok |-> FALSE]

\* The simulated download loop: for progress in range(0, 101, 10).
ProgressStep == 10
ProgressLast == 100

\* dict.update on the model's record, skipped when the record is gone.
UpdateStatus(ds, m, st, pr) ==
    IF ds[m] = NoStatus THEN ds
    ELSE [ds EXCEPT ![m].status = st, ![m].progress = pr]

\* The update of the progress loop, which also stores the two byte counts.
UpdateBytes(ds, m, pr) ==
    IF ds[m] = NoStatus THEN ds
    ELSE [ds EXCEPT ![m].bytes_downloaded = pr * BytesPerPoint,
                    ![m].total_bytes = TotalBytes]

\* The finally block of _download_model_files: the handle stored under the
\* model's name is deleted, whichever task it is the handle of.
CleanUp(ad, m) == [ad EXCEPT ![m] = NoTask]

\* A task that has ended; nothing refers to it any more.
Finished(t) == [model |-> <<>>, pc |-> "done", progress |-> 0,
                cancelled |-> FALSE, deleted |-> FALSE]

\* DownloadService.download_model.
DownloadModel(m) ==
    /\ reply = NoReply
    /\ IF IsModelDownloaded(m)
       THEN /\ reply' = [NoReply EXCEPT !.op = "download", !.model = m,
                                        !.status = "completed"]
            /\ UNCHANGED <<download_status, active_downloads, tasks>>
       ELSE IF active_downloads[m] # NoTask
       THEN /\ reply' = [NoReply EXCEPT !.op = "download", !.model = m,
                                        !.status = "downloading"]
            /\ UNCHANGED <<download_status, active_downloads, tasks>>
       ELSE /\ Len(tasks) < MaxTasks
            /\ download_status' =
                 [download_status EXCEPT ![m] =
                    [NoStatus EXCEPT !.status = "downloading"]]
            /\ tasks' = Append(tasks, [model |-> m, pc |-> "start",
                                       progress |-> 0, cancelled |-> FALSE,
                                       deleted |-> FALSE])
            /\ active_downloads' =
                 [active_downloads EXCEPT ![m] = Len(tasks) + 1]
            /\ reply' = [NoReply EXCEPT !.op = "download", !.model = m,
                                        !.status = "downloading", !.ok = TRUE]
    /\ UNCHANGED <<svars, pvars, model_dirs, markers, api_key>>

\* A cancelled task is resumed with CancelledError: one that never ran ends
\* without entering its try block; one suspended inside it skips
\* `except Exception` and runs the finally block.
TaskCancelled(t) ==
    /\ reply = NoReply
    /\ t \in DOMAIN tasks
    /\ tasks[t].pc # "done"
    /\ tasks[t].cancelled
    /\ tasks' = [tasks EXCEPT ![t] = Finished(t)]
    /\ active_downloads' =
         IF tasks[t].pc = "start" THEN active_downloads
         ELSE CleanUp(active_downloads, tasks[t].model)
    /\ UNCHANGED <<svars, pvars, download_status, model_dirs, markers, api_key, reply>>

\* _download_model_files from its start to the first asyncio.sleep: a gated
\* model without a token is marked failed and the task returns.
TaskStart(t) ==
    /\ reply = NoReply
    /\ t \in DOMAIN tasks
    /\ tasks[t].pc = "start"
    /\ ~tasks[t].cancelled
    /\ LET m == tasks[t].model
       IN  IF m \in GatedModels /\ ~api_key
           THEN /\ download_status' = UpdateStatus(download_status, m, "failed", 0)
                /\ tasks' = [tasks EXCEPT ![t] = Finished(t)]
                /\ active_downloads' = CleanUp(active_downloads, m)
           ELSE /\ tasks' = [tasks EXCEPT ![t].pc = "sleep"]
                /\ UNCHANGED <<download_status, active_downloads>>
    /\ UNCHANGED <<svars, pvars, model_dirs, markers, api_key, reply>>

\* One asyncio.sleep(1) returns: the record takes the loop's progress; after
\* the last round it is marked completed, the model's directory is made and
\* the task awaits aiofiles.open.
TaskProgress(t) ==
    /\ reply = NoReply
    /\ t \in DOMAIN tasks
    /\ tasks[t].pc = "sleep"
    /\ ~tasks[t].cancelled
    /\ LET m == tasks[t].model
           pr == tasks[t].progress
           st == IF download_status[m] = NoStatus THEN "none"
                 ELSE download_status[m].status
       IN  IF pr < ProgressLast
           THEN /\ download_status' =
                     UpdateBytes(UpdateStatus(download_status, m, st, pr), m, pr)
                /\ tasks' = [tasks EXCEPT ![t].progress = pr + ProgressStep]
                /\ UNCHANGED model_dirs
           ELSE /\ download_status' =
                     UpdateStatus(download_status, m, "completed", ProgressLast)
                /\ tasks' = [tasks EXCEPT ![t].pc = "open", ![t].progress = 0]
                /\ model_dirs' = model_dirs \cup {DirName(m)}
    /\ UNCHANGED <<svars, pvars, active_downloads, markers, api_key, reply>>

\* aiofiles.open(completion_file, 'w') returns: the file exists from here on,
\* or the open has failed (the directory is gone, the disk refuses) and
\* `except Exception` marks the record failed.
TaskOpen(t, diskOk) ==
    /\ reply = NoReply
    /\ t \in DOMAIN tasks
    /\ tasks[t].pc = "open"
    /\ ~tasks[t].cancelled
    /\ LET m == tasks[t].model
       IN  IF diskOk /\ DirName(m) \in model_dirs
           THEN /\ markers' = markers \cup {DirName(m)}
                /\ tasks' = [tasks EXCEPT ![t].pc = "write"]
                /\ UNCHANGED <<download_status, active_downloads>>
           ELSE /\ download_status' =
                     UpdateStatus(download_status, m, "failed",
                                  IF download_status[m] = NoStatus THEN 0
                                  ELSE download_status[m].progress)
                /\ tasks' = [tasks EXCEPT ![t] = Finished(t)]
                /\ active_downloads' = CleanUp(active_downloads, m)
                /\ UNCHANGED markers
    /\ UNCHANGED <<svars, pvars, model_dirs, api_key, reply>>

\* f.write and the close of the file return; the finally block runs.
TaskWrite(t) ==
    /\ reply = NoReply
    /\ t \in DOMAIN tasks
    /\ tasks[t].pc = "write"
    /\ ~tasks[t].cancelled
    /\ tasks' = [tasks EXCEPT ![t] = Finished(t)]
    /\ active_downloads' = CleanUp(active_downloads, tasks[t].model)
    /\ UNCHANGED <<svars, pvars, download_status, model_dirs, markers, api_key, reply>>

\* DownloadService.delete_model. The task the model's handle names is
\* cancelled; every task of the model that has not ended remembers that the
\* model was deleted under it.
DeleteModel(m) ==
    /\ reply = NoReply
    /\ IF DirName(m) \notin model_dirs
       THEN /\ reply' = [NoReply EXCEPT !.op = "delete", !.model = m]
            /\ UNCHANGED <<download_status, active_downloads, tasks,
                           model_dirs, markers>>
       ELSE /\ model_dirs' = model_dirs \ {DirName(m)}
            /\ markers' = markers \ {DirName(m)}
            /\ download_status' = [download_status EXCEPT ![m] = NoStatus]
            /\ tasks' = [t \in DOMAIN tasks |->
                           IF tasks[t].model = m /\ tasks[t].pc # "done"
                           THEN [tasks[t] EXCEPT
                                   !.cancelled = @ \/ t = active_downloads[m],
                                   !.deleted = TRUE]
                           ELSE tasks[t]]
            /\ active_downloads' = [active_downloads EXCEPT ![m] = NoTask]
            /\ reply' = [NoReply EXCEPT !.op = "delete", !.model = m, !.ok = TRUE]
    /\ UNCHANGED <<svars, pvars, api_key>>

\* POST /models/offload: ModelService.offload_model drops the model from the
\* in-memory caches and touches nothing of the download tracker.
OffloadModel(m) ==
    /\ reply = NoReply
    /\ reply' = [NoReply EXCEPT !.op = "offload", !.model = m, !.ok = TRUE]
    /\ transformers_models' = transformers_models \ {m}
    /\ tokenizers' = tokenizers \ {m}
    /\ UNCHANGED <<svars, call_in, call_out, prompt_configs, download_status,
                   active_downloads, tasks, model_dirs, markers, api_key>>

\* The tracker's answer reaches its caller.
RespondTracker ==
    /\ reply # NoReply
    /\ reply' = NoReply
    /\ UNCHANGED <<svars, pvars, download_status, active_downloads, tasks, model_dirs,
                   markers, api_key>>

\* DownloadService.__init__ on an empty ./models directory.
IdleTracker ==
    /\ download_status = [m \in ModelNames |-> NoStatus]
    /\ active_downloads = [m \in ModelNames |-> NoTask]
    /\ tasks = <<>>
    /\ model_dirs = {}
    /\ markers = {}
    /\ reply = NoReply

InitDownload ==
    /\ IdleTracker
    /\ api_key \in BOOLEAN
    /\ NoSingleCall
    /\ backend = "simple"
    /\ collections = [c \in Names |-> Absent]
    /\ pending = {}
    /\ nextId = 1
    /\ quota = 0
    /\ named = {}
    /\ failed = {}
    /\ last = NoResult

NextDownload ==
    \/ \E m \in ModelNames : DownloadModel(m)
    \/ \E m \in ModelNames : DeleteModel(m)
    \/ \E m \in ModelNames : OffloadModel(m)
    \/ \E t \in DOMAIN tasks : TaskCancelled(t)
    \/ \E t \in DOMAIN tasks : TaskStart(t)
    \/ \E t \in DOMAIN tasks : TaskProgress(t)
    \/ \E t \in DOMAIN tasks, diskOk \in BOOLEAN : TaskOpen(t, diskOk)
    \/ \E t \in DOMAIN tasks : TaskWrite(t)
    \/ RespondTracker

SpecDownload == InitDownload /\ [][NextDownload]_vars

\* One step of download task t, whichever it is.
TaskStep(t) ==
    \/ TaskCancelled(t)
    \/ TaskStart(t)
    \/ TaskProgress(t)
    \/ \E diskOk \in BOOLEAN : TaskOpen(t, diskOk)
    \/ TaskWrite(t)

\* The event loop runs every callback that is ready: a task whose sleep or
\* file operation has returned is resumed, and an answer is delivered.
FairDownload ==
    /\ WF_vars(RespondTracker)
    /\ \A t \in 1..MaxTasks : SF_vars(TaskStep(t))

SpecDownloadFair == SpecDownload /\ FairDownload

\* ------------------------------------------------------------- single calls
\* Runs that make one call of one handler, on arguments drawn at the start.

\* Model names a comparison request lists: two hosted ones and a local one.
CompareNames == {"gpt-4", "claude-3", "mistral-7b"}

\* ModelService._determine_provider: the name's prefix picks a hosted
\* provider, every other name is served by vLLM.
DetermineProvider(name) ==
    CASE name = "gpt-4" -> "openai"
      [] name = "claude-3" -> "anthropic"
      [] OTHER -> "vllm"

\* The ModelResponse generate_response returns for one model of a comparison:
\* the provider's text, or the error response with finish_reason "error".
ModelResponseOf(name, call) ==
    LET g == GenerateResponse(DetermineProvider(name), call)
    IN  [text |-> g, model_name |-> name, provider |-> DetermineProvider(name),
         tokens_used |-> 0,
         finish_reason |-> IF g = "sorry" THEN "error" ELSE "stop"]

\* The ModelComparison compare_models builds of a ModelResponse.
ToComparison(r) ==
    [model_name |-> r.model_name, provider |-> r.provider, text |-> r.text,
     usage |-> r.tokens_used]

\* ModelService.compare_models behind POST /models/compare: one
\* generate_response per listed name, gathered in order.
CompareModels(models, calls) ==
    [http |-> 200,
     responses |-> [i \in 1..Len(models) |->
                       ToComparison(ModelResponseOf(models[i], calls[i]))]]

Seqs(S, n) == UNION {[1..k -> S] : k \in 1..n}

InitCompare ==
    /\ \E ms \in Seqs(CompareNames, MaxModels) :
         \E cs \in [1..Len(ms) -> ProviderCalls] :
            call_in = [models |-> ms, calls |-> cs]
    /\ call_out = NoCall
    /\ prompt_configs = {}
    /\ NoModelLoaded
    /\ IdleTracker
    /\ api_key = FALSE
    /\ backend = "simple"
    /\ collections = [c \in Names |-> Absent]
    /\ pending = {}
    /\ nextId = 1
    /\ quota = 0
    /\ named = {}
    /\ failed = {}
    /\ last = NoResult

CompareCall ==
    /\ ~call_out.done
    /\ call_out' = Returned(CompareModels(call_in.models, call_in.calls))
    /\ UNCHANGED <<svars, dvars, call_in, prompt_configs, mvars>>

SpecCompare == InitCompare /\ [][CompareCall]_vars

\* Collection names are character sequences. The characters requests use:
\* letters, "_", "-" and one character the pattern [a-zA-Z0-9_-] excludes.
NameAlphabet == {"a", "_", "-", "!"}
AlphaNumeric == {"a", "c", "o", "l"}
NameChars == AlphaNumeric \cup {"_", "-"}

\* The length bounds of a sanitized name.
MinNameLen == 3
MaxNameLen == 63

\* re.sub(r'[^a-zA-Z0-9_-]', '_', name)
ReplaceInvalid(x) == [i \in DOMAIN x |-> IF x[i] \in NameChars THEN x[i] ELSE "_"]

\* re.sub(r'^[^a-zA-Z0-9]+', '', name)
RECURSIVE StripLeading(_)
StripLeading(x) ==
    IF x = <<>> \/ Head(x) \in AlphaNumeric THEN x ELSE StripLeading(Tail(x))

\* re.sub(r'[^a-zA-Z0-9]+$', '', name)
RECURSIVE StripTrailing(_)
StripTrailing(x) ==
    IF x = <<>> \/ x[Len(x)] \in AlphaNumeric THEN x
    ELSE StripTrailing(SubSeq(x, 1, Len(x) - 1))

\* The sanitization of upload_document: replace, strip both ends, prefix a
\* name shorter than 3 characters with "col_", cut one longer than 63.
Sanitize(x) ==
    LET stripped == StripTrailing(StripLeading(ReplaceInvalid(x)))
        prefixed == IF Len(stripped) < MinNameLen
                    THEN <<"c", "o", "l", "_">> \o stripped ELSE stripped
    IN  IF Len(prefixed) > MaxNameLen THEN SubSeq(prefixed, 1, MaxNameLen)
        ELSE prefixed

\* Names to sanitize: a run of letters (none, or enough to come near the
\* length limit) followed by up to MaxTail characters.
Letters(n) == [i \in 1..n |-> "a"]
LetterRuns == {0, MaxNameLen - 2, MaxNameLen - 1, MaxNameLen}
RawNames ==
    {Letters(n) \o t : n \in LetterRuns,
                       t \in {<<>>} \cup Seqs(NameAlphabet, MaxTail)}

InitSanitize ==
    /\ call_in \in RawNames
    /\ call_out = NoCall
    /\ prompt_configs = {}
    /\ NoModelLoaded
    /\ IdleTracker
    /\ api_key = FALSE
    /\ backend = "simple"
    /\ collections = [c \in Names |-> Absent]
    /\ pending = {}
    /\ nextId = 1
    /\ quota = 0
    /\ named = {}
    /\ failed = {}
    /\ last = NoResult

\* The name is sanitized, and the sanitized name is sanitized again.
SanitizeCall ==
    /\ ~call_out.done
    /\ call_out' = Returned([once |-> Sanitize(call_in),
                             twice |-> Sanitize(Sanitize(call_in))])
    /\ UNCHANGED <<svars, dvars, call_in, prompt_configs, mvars>>

SpecSanitize == InitSanitize /\ [][SanitizeCall]_vars

\* ------------------------------------------------------------ store runs
InitStore(q, d) ==
    /\ backend \in Backends
    /\ collections = [c \in Names |-> Absent]
    /\ pending = {}
    /\ nextId = 1
    /\ quota = IF backend \in RagBackends THEN q ELSE d
    /\ named = {}
    /\ failed = {}
    /\ last = NoResult
    /\ IdleTracker
    /\ api_key = FALSE
    /\ NoSingleCall

\* What get_or_create_collection may do with the metadata of a call.
Modifies(col) == IF backend = "chroma" /\ col.exists THEN BOOLEAN ELSE {FALSE}

Ingest ==
    \/ \E c \in Names, n \in 0..MaxChunks : UploadStart(c, n)
    \/ \E p \in pending, f \in Faults :
         \E modifies \in Modifies(collections[p.coll]) : UploadProcess(p, f, modifies)
    \/ \E c \in Names, ext \in FileNameExtensions, size \in ContentSizes :
         UploadRejected(c, ext, size)
    \/ \E c \in Names, n \in 0..MaxChunks, f \in Faults : RagFaissProcess(c, n, f)
    \/ \E c \in Names : FsvcCreate(c)
    \/ \E c \in Names, nd \in 0..MaxChunks, ne \in 0..MaxChunks,
          nm \in 0..MaxChunks, f \in Faults : FsvcAdd(c, nd, ne, nm, f)

Query ==
    \/ \E c \in Names, k \in TopKs, pr \in Providers, call \in ProviderCalls :
         \E m \in MatchCounts(c), f \in QueryFaults : QueryRag(c, k, m, f, pr, call)
    \/ \E c \in Names, k \in TopKs, oob \in BOOLEAN : FsvcQuery(c, k, oob)
    \/ \E c \in Names, k \in TopKs, f \in QueryFaults : RagFaissQuery(c, k, f)

\* Ingestion alone: concurrent uploads, failing external calls, direct calls of
\* the stand-alone stores.
InitIngest == InitStore(MaxUploads, MaxCalls)
NextIngest == Ingest \/ Respond
SpecIngest == InitIngest /\ [][NextIngest]_vars

\* Ingestion and queries.
InitQuery == InitStore(QueryUploads, QueryUploads)
NextQuery == Ingest \/ Query \/ Respond
SpecQuery == InitQuery /\ [][NextQuery]_vars

\* --------------------------------------------------------------- management
\* delete_collection of the store in use: [coll, status, err, ret]. ChromaDB
\* raises on a missing name and RAGService answers False; the inline FAISS
\* path deletes what is there and answers True; with neither ChromaDB nor
\* FAISS, RAGService raises although the lexical store is in use; the two
\* stand-alone stores answer whether the name was there.
DeleteCollection(b, col) ==
    CASE b = "faiss" ->
           [coll |-> Absent, status |-> "ok", err |-> "none", ret |-> "true"]
      [] b = "simple" ->
           [coll |-> col, status |-> "error", err |-> "no_backend", ret |-> ""]
      [] OTHER ->
           IF col.exists
           THEN [coll |-> Absent, status |-> "ok", err |-> "none", ret |-> "true"]
           ELSE [coll |-> col, status |-> "ok", err |-> "none", ret |-> "false"]

\* DELETE /rag/collections/{name}: True is answered 200; for False the
\* handler raises HTTPException(404) inside its `try`, and its
\* `except Exception` answers that, like every exception, with an HTTP 500.
DeleteEndpoint(c) ==
    /\ backend \in RagBackends
    /\ last = NoResult
    /\ LET r == DeleteCollection(backend, collections[c])
       IN  /\ collections' = [collections EXCEPT ![c] = r.coll]
           /\ last' = [NoResult EXCEPT !.op = "delete", !.coll = c,
                                       !.status = r.status, !.err = r.err,
                                       !.ret = r.ret,
                                       !.http = IF r.ret = "true" THEN 200 ELSE 500]
    /\ UNCHANGED <<dvars, pvars, backend, quota, pending, nextId, named, failed>>

\* delete_collection of a stand-alone store, called directly.
DeleteDirect(c) ==
    /\ backend \notin RagBackends
    /\ last = NoResult
    /\ LET r == DeleteCollection(backend, collections[c])
       IN  /\ collections' = [collections EXCEPT ![c] = r.coll]
           /\ last' = [NoResult EXCEPT !.op = "delete", !.coll = c,
                                       !.status = r.status, !.err = r.err,
                                       !.ret = r.ret]
    /\ UNCHANGED <<dvars, pvars, backend, quota, pending, nextId, named, failed>>

ConfigIds == {"k1", "k2"}

\* POST /configs/save: the handler calls datetime.utcnow(), and configs.py
\* imports no datetime; the NameError is answered with an HTTP 500 and
\* nothing is stored.
ConfigSave ==
    /\ last = NoResult
    /\ last' = [NoResult EXCEPT !.op = "config_save", !.status = "error",
                                !.err = "name_error", !.http = 500]
    /\ UNCHANGED <<dvars, pvars, backend, quota, collections, pending, nextId,
                   named, failed>>

\* GET, PUT and DELETE /configs/{id}: a missing id raises HTTPException(404)
\* inside the handler's `try`, whose `except Exception` answers with a 500.
\* PUT on a stored id fails like the save; DELETE removes the id.
ConfigRequest(op, id) ==
    /\ last = NoResult
    /\ LET http == IF id \notin prompt_configs \/ op = "config_update" THEN 500
                   ELSE 200
           err == IF id \notin prompt_configs THEN "not_found"
                  ELSE IF op = "config_update" THEN "name_error" ELSE "none"
       IN  /\ last' = [NoResult EXCEPT !.op = op, !.coll = id, !.http = http,
                          !.err = err,
                          !.status = IF http = 200 THEN "ok" ELSE "error"]
           /\ prompt_configs' = IF op = "config_delete" /\ http = 200
                                THEN prompt_configs \ {id} ELSE prompt_configs
    /\ UNCHANGED <<dvars, call_in, call_out, mvars, backend, quota,
                   collections, pending, nextId, named, failed>>

Manage ==
    \/ \E c \in Names : DeleteEndpoint(c)
    \/ \E c \in Names : DeleteDirect(c)
    \/ ConfigSave
    \/ \E id \in ConfigIds,
          op \in {"config_get", "config_update", "config_delete"} :
            ConfigRequest(op, id)

\* Uploads, deletions and the prompt configuration requests.
InitManage == InitStore(ManageUploads, ManageUploads)
NextManage == Ingest \/ Manage \/ Respond
SpecManage == InitManage /\ [][NextManage]_vars

\* ------------------------------------------------- one sequence, three stores
\* get_collection_stats: ChromaDB and the inline FAISS path count the chunks
\* of a collection they hold and raise ValueError for any other name; with
\* neither of the two the method raises RuntimeError.
CollectionStats(b, col) ==
    IF b = "simple" THEN [status |-> "error", err |-> "no_backend", n |-> 0]
    ELSE IF ~col.exists THEN [status |-> "error", err |-> "not_found", n |-> 0]
    ELSE [status |-> "ok", err |-> "none", n |-> Len(col.documents)]

\* list_collections: the names held, each with its chunk_count.
ListCollections(cols) ==
    {<<c, Len(cols[c].documents)>> : c \in {x \in Names : cols[x].exists}}

\* The operations of a caller of RAGService, all of them free of faults of
\* the embedding model and of the index; a query asks for a term every chunk
\* holds.
StoreOps ==
    [op : {"upload"}, coll : Names, n : 0..MaxChunks]
      \cup [op : {"query"}, coll : Names, n : 1..(MaxChunks + 1)]
      \cup [op : {"stats", "delete"}, coll : Names, n : {0}]
      \cup [op : {"list"}, coll : {""}, n : {0}]

\* What the operation o, the i-th of its sequence, does to the collections of
\* backend b, and what its caller observes: success or failure, the size or
\* the number of chunks answered, the returned boolean, the listing.
StoreStep(b, cols, o, i) ==
    LET obs(status, n, ret, listing) ==
            [op |-> o.op, status |-> status, n |-> n, ret |-> ret,
             listing |-> listing]
    IN  CASE o.op = "upload" ->
               LET r == ProcessDocument(b, cols[o.coll], i, o.n, "none", FALSE)
               IN  [cols |-> [cols EXCEPT ![o.coll] = r.coll],
                    obs |-> obs(r.status,
                                IF r.status = "ok" THEN Len(r.coll.documents)
                                ELSE 0, "", {})]
          [] o.op = "query" ->
               LET r == Retrieve(b, cols[o.coll], o.n,
                                 Len(cols[o.coll].documents), "none")
               IN  [cols |-> cols, obs |-> obs(r.status, r.n, "", {})]
          [] o.op = "stats" ->
               LET r == CollectionStats(b, cols[o.coll])
               IN  [cols |-> cols, obs |-> obs(r.status, r.n, "", {})]
          [] o.op = "delete" ->
               LET r == DeleteCollection(b, cols[o.coll])
               IN  [cols |-> [cols EXCEPT ![o.coll] = r.coll],
                    obs |-> obs(r.status, 0, r.ret, {})]
          [] OTHER ->
               [cols |-> cols, obs |-> obs("ok", 0, "", ListCollections(cols))]

\* The observations of the operations ops[i..] on backend b from cols on.
RECURSIVE StoreRun(_, _, _, _)
StoreRun(b, cols, ops, i) ==
    IF i > Len(ops) THEN <<>>
    ELSE LET s == StoreStep(b, cols, ops[i], i)
         IN  <<s.obs>> \o StoreRun(b, s.cols, ops, i + 1)

\* Operations in one sequence.
MaxOps == 2

InitBackends ==
    /\ call_in \in Seqs(StoreOps, MaxOps)
    /\ call_out = NoCall
    /\ prompt_configs = {}
    /\ NoModelLoaded
    /\ IdleTracker
    /\ api_key = FALSE
    /\ backend = "simple"
    /\ collections = [c \in Names |-> Absent]
    /\ pending = {}
    /\ nextId = 1
    /\ quota = 0
    /\ named = {}
    /\ failed = {}
    /\ last = NoResult

\* The sequence is run on a fresh RAGService of each backend.
BackendsCall ==
    /\ ~call_out.done
    /\ call_out' = Returned([b \in RagBackends |->
                               StoreRun(b, [c \in Names |-> Absent], call_in, 1)])
    /\ UNCHANGED <<svars, dvars, call_in, prompt_configs, mvars>>

SpecBackends == InitBackends /\ [][BackendsCall]_vars

\* ---------------------------------------------------------- context assembly
\* The context of a RAG prompt, as query_rag, _query_rag_faiss and
\* _query_rag_simple build it from the retrieved chunks. Chunks are modelled
\* by their lengths in characters.
MaxChars == 1200
MinRemaining == 50
EllipsisLen == 3
SeparatorLen == 2

\* The loop over retrieved_docs from chunk i on: a chunk that fits is added
\* whole; the first that does not is cut to the remaining characters and
\* given "..." when more than MinRemaining characters remain, and is left
\* out otherwise; the loop ends there.
RECURSIVE AssembleFrom(_, _, _, _)
AssembleFrom(lens, i, total_chars, context_parts) ==
    IF i > Len(lens) THEN context_parts
    ELSE IF total_chars + lens[i] <= MaxChars
    THEN AssembleFrom(lens, i + 1, total_chars + lens[i],
                      Append(context_parts,
                             [doc |-> i, len |-> lens[i], cut |-> FALSE]))
    ELSE LET remaining_chars == MaxChars - total_chars
         IN  IF remaining_chars > MinRemaining
             THEN Append(context_parts,
                         [doc |-> i, len |-> remaining_chars + EllipsisLen,
                          cut |-> TRUE])
             ELSE context_parts

RECURSIVE SumLen(_, _)
SumLen(parts, n) == IF n = 0 THEN 0 ELSE parts[n].len + SumLen(parts, n - 1)

\* len("\n\n".join(context_parts)).
JoinedLength(parts) ==
    IF Len(parts) = 0 THEN 0
    ELSE SumLen(parts, Len(parts)) + SeparatorLen * (Len(parts) - 1)

\* Chunks retrieved by one query.
MaxRetrieved == 3

\* Lengths of chunks: short ones, half a budget, nearly a budget, more.
ChunkLengths == {30, 600, 1170, 1300}

InitContext ==
    /\ call_in \in Seqs(ChunkLengths, MaxRetrieved)
    /\ call_out = NoCall
    /\ prompt_configs = {}
    /\ NoModelLoaded
    /\ IdleTracker
    /\ api_key = FALSE
    /\ backend = "simple"
    /\ collections = [c \in Names |-> Absent]
    /\ pending = {}
    /\ nextId = 1
    /\ quota = 0
    /\ named = {}
    /\ failed = {}
    /\ last = NoResult

ContextCall ==
    /\ ~call_out.done
    /\ LET parts == AssembleFrom(call_in, 1, 0, <<>>)
       IN  call_out' = Returned([parts |-> parts, length |-> JoinedLength(parts)])
    /\ UNCHANGED <<svars, dvars, call_in, prompt_configs, mvars>>

SpecContext == InitContext /\ [][ContextCall]_vars

\* ---------------------------------------------------------- lexical search
\* The keyword search of _query_rag_simple. Texts are character sequences.
LowerChar(ch) == CASE ch = "A" -> "a" [] ch = "B" -> "b" [] OTHER -> ch

\* str.lower().
LowerText(text) == [i \in 1..Len(text) |-> LowerChar(text[i])]

\* str.split(): the maximal runs of characters that are not whitespace; word
\* is the run being read.
RECURSIVE SplitFrom(_, _, _)
SplitFrom(text, i, word) ==
    IF i > Len(text) THEN (IF word = <<>> THEN <<>> ELSE <<word>>)
    ELSE IF text[i] = " "
    THEN (IF word = <<>> THEN <<>> ELSE <<word>>) \o SplitFrom(text, i + 1, <<>>)
    ELSE SplitFrom(text, i + 1, Append(word, text[i]))

SplitWords(text) == SplitFrom(text, 1, <<>>)

\* `term in doc_lower`.
Contains(term, text) ==
    \E k \in 0..(Len(text) - Len(term)) :
        \A i \in 1..Len(term) : text[k + i] = term[i]

\* The inner loop: one point for every element of query_terms the chunk holds.
RECURSIVE KeywordScore(_, _, _)
KeywordScore(query_terms, doc_lower, n) ==
    IF n = 0 THEN 0
    ELSE KeywordScore(query_terms, doc_lower, n - 1)
           + (IF Contains(query_terms[n], doc_lower) THEN 1 ELSE 0)

\* The outer loop from chunk i on: the chunks that score above 0, in order.
RECURSIVE ScoredDocs(_, _, _)
ScoredDocs(documents, query_terms, i) ==
    IF i > Len(documents) THEN <<>>
    ELSE LET score == KeywordScore(query_terms, LowerText(documents[i]),
                                   Len(query_terms))
         IN  (IF score > 0 THEN <<[idx |-> i, score |-> score]>> ELSE <<>>)
               \o ScoredDocs(documents, query_terms, i + 1)

\* A variant of the insertion below that puts an entry before the entries of
\* the same score.
InsertBeforeEqual(sorted, x) ==
    LET before == SelectSeq(sorted, LAMBDA y : y.score > x.score)
        after == SelectSeq(sorted, LAMBDA y : y.score <= x.score)
    IN  before \o <<x>> \o after

\* list.sort(key=score, reverse=True) is stable: an entry goes after the
\* entries of the same score that stood before it.
InsertDescending(sorted, x) ==
    LET before == SelectSeq(sorted, LAMBDA y : y.score >= x.score)
        after == SelectSeq(sorted, LAMBDA y : y.score < x.score)
    IN  before \o <<x>> \o after

RECURSIVE SortDescending(_, _)
SortDescending(docs, n) ==
    IF n = 0 THEN <<>>
    ELSE InsertDescending(SortDescending(docs, n - 1), docs[n])

\* The sentinel score 0.1 of a chunk returned without a match.
SentinelScore == [num |-> 1, den |-> 10]

\* retrieved_docs of _query_rag_simple: the top_k best scored chunks, each
\* with score / len(query_terms); when there is none, the first top_k chunks
\* with the sentinel score.
KeywordSearch(documents, query, top_k) ==
    LET query_terms == SplitWords(LowerText(query))
        scored_docs == ScoredDocs(documents, query_terms, 1)
        sorted == SortDescending(scored_docs, Len(scored_docs))
        top_docs == SubSeq(sorted, 1, Min(top_k, Len(sorted)))
    IN  IF top_docs # <<>>
        THEN [r \in 1..Len(top_docs) |->
                [idx |-> top_docs[r].idx,
                 similarity_score |-> [num |-> top_docs[r].score,
                                       den |-> Len(query_terms)]]]
        ELSE [r \in 1..Min(top_k, Len(documents)) |->
                [idx |-> r, similarity_score |-> SentinelScore]]

\* Characters of a query, chunks of a collection.
QueryAlphabet == {"a", "B", " "}
ChunkTexts == {<<"a">>, <<"b">>, <<"A", "b">>, <<"b", "a">>, <<"c">>}

\* Characters in a query; chunks in the collection queried.
MaxQueryLen == 3
MaxDocs == 2

InitSearch ==
    /\ \E q \in {<<>>} \cup Seqs(QueryAlphabet, MaxQueryLen),
          docs \in {<<>>} \cup Seqs(ChunkTexts, MaxDocs),
          k \in 1..MaxDocs :
            call_in = [query |-> q, documents |-> docs, top_k |-> k]
    /\ call_out = NoCall
    /\ prompt_configs = {}
    /\ NoModelLoaded
    /\ IdleTracker
    /\ api_key = FALSE
    /\ backend = "simple"
    /\ collections = [c \in Names |-> Absent]
    /\ pending = {}
    /\ nextId = 1
    /\ quota = 0
    /\ named = {}
    /\ failed = {}
    /\ last = NoResult

SearchCall ==
    /\ ~call_out.done
    /\ call_out' = Returned(KeywordSearch(call_in.documents, call_in.query,
                                          call_in.top_k))
    /\ UNCHANGED <<svars, dvars, call_in, prompt_configs, mvars>>

SpecSearch == InitSearch /\ [][SearchCall]_vars

\* ------------------------------------------------------------------ chunker
\* _split_text of RAGService ("rag_service") and of RAGServiceFAISS
\* ("rag_service_faiss"). Texts are character sequences.
Chunkers == {"rag_service", "rag_service_faiss"}

\* What \s matches.
IsSpace(ch) == ch \in {" ", "\n"}

\* str.strip().
RECURSIVE LStrip(_)
LStrip(text) ==
    IF text # <<>> /\ IsSpace(Head(text)) THEN LStrip(Tail(text)) ELSE text

RECURSIVE RStrip(_)
RStrip(text) ==
    IF text # <<>> /\ IsSpace(text[Len(text)])
    THEN RStrip(SubSeq(text, 1, Len(text) - 1)) ELSE text

Strip(text) == RStrip(LStrip(text))

\* Where a match of \n\s*\n that begins at i may end; \s* is greedy, the
\* match ends at the last of them.
MatchEnds(text, i) ==
    IF text[i] # "\n" THEN {}
    ELSE {j \in (i + 1)..Len(text) :
            /\ text[j] = "\n"
            /\ \A k \in (i + 1)..(j - 1) : IsSpace(text[k])}

Greatest(S) == CHOOSE x \in S : \A y \in S : y <= x

\* re.split(r'\n\s*\n', text) from position i on, the piece being read
\* having begun at start.
RECURSIVE ReSplit(_, _, _)
ReSplit(text, i, start) ==
    IF i > Len(text) THEN <<SubSeq(text, start, Len(text))>>
    ELSE IF MatchEnds(text, i) # {}
    THEN LET j == Greatest(MatchEnds(text, i))
         IN  <<SubSeq(text, start, i - 1)>> \o ReSplit(text, j + 1, j + 1)
    ELSE ReSplit(text, i + 1, start)

ParagraphBreak == <<"\n", "\n">>

\* The buffer after a chunk is sealed: RAGService keeps the last
\* chunk_overlap characters of the buffer, RAGServiceFAISS keeps nothing.
NextBuffer(impl, current_chunk, paragraph, chunk_overlap) ==
    IF impl = "rag_service"
    THEN LET n == Len(current_chunk)
             overlap_start == IF n - chunk_overlap > 0 THEN n - chunk_overlap
                              ELSE 0
         IN  SubSeq(current_chunk, overlap_start + 1, n)
               \o ParagraphBreak \o paragraph
    ELSE paragraph

\* A variant of the test below that never adds the last chunk.
FlushesNever(impl, current_chunk) == FALSE

\* The test before "Add the last chunk": RAGService asks for a buffer that
\* is not blank, RAGServiceFAISS for one that is not empty.
Flushes(impl, current_chunk) ==
    IF impl = "rag_service" THEN Strip(current_chunk) # <<>>
    ELSE current_chunk # <<>>

\* The loop over the paragraphs from the i-th on. seals records, for every
\* chunk sealed inside the loop, the chunk, the paragraph that did not fit
\* and the buffer the loop went on with.
RECURSIVE SplitLoop(_, _, _, _, _, _, _, _)
SplitLoop(impl, paragraphs, i, current_chunk, chunks, seals, chunk_size, chunk_overlap) ==
    IF i > Len(paragraphs)
    THEN [chunks |-> IF Flushes(impl, current_chunk)
                     THEN Append(chunks, Strip(current_chunk)) ELSE chunks,
          seals |-> seals, paragraphs |-> paragraphs]
    ELSE LET paragraph == paragraphs[i]
         IN  IF Len(current_chunk) + Len(paragraph) > chunk_size
                  /\ current_chunk # <<>>
             THEN LET next == NextBuffer(impl, current_chunk, paragraph,
                                         chunk_overlap)
                  IN  SplitLoop(impl, paragraphs, i + 1, next,
                                Append(chunks, Strip(current_chunk)),
                                Append(seals, [sealed |-> Strip(current_chunk),
                                               paragraph |-> paragraph,
                                               next |-> next]),
                                chunk_size, chunk_overlap)
             ELSE SplitLoop(impl, paragraphs, i + 1,
                            IF current_chunk # <<>>
                            THEN current_chunk \o ParagraphBreak \o paragraph
                            ELSE paragraph,
                            chunks, seals, chunk_size, chunk_overlap)

SplitText(impl, text, chunk_size, chunk_overlap) ==
    SplitLoop(impl, ReSplit(text, 1, 1), 1, <<>>, <<>>, <<>>, chunk_size,
              chunk_overlap)

\* Characters of a text to split, and the sizes asked for.
TextAlphabet == {"a", "b", " ", "\n"}
ChunkSizes == 1..3
ChunkOverlaps == 0..2

\* Characters in a text to split.
MaxTextLen == 5

InitChunker ==
    /\ \E impl \in Chunkers, text \in {<<>>} \cup Seqs(TextAlphabet, MaxTextLen),
          size \in ChunkSizes, overlap \in ChunkOverlaps :
            call_in = [impl |-> impl, text |-> text, chunk_size |-> size,
                       chunk_overlap |-> overlap]
    /\ call_out = NoCall
    /\ prompt_configs = {}
    /\ NoModelLoaded
    /\ IdleTracker
    /\ api_key = FALSE
    /\ backend = "simple"
    /\ collections = [c \in Names |-> Absent]
    /\ pending = {}
    /\ nextId = 1
    /\ quota = 0
    /\ named = {}
    /\ failed = {}
    /\ last = NoResult

ChunkerCall ==
    /\ ~call_out.done
    /\ call_out' = Returned(SplitText(call_in.impl, call_in.text,
                                      call_in.chunk_size, call_in.chunk_overlap))
    /\ UNCHANGED <<svars, dvars, call_in, prompt_configs, mvars>>

SpecChunker == InitChunker /\ [][ChunkerCall]_vars

\* ------------------------------------------------------- model directories
\* item.name.replace("_", "/"): the model name get_downloaded_models reads
\* off a directory name.
ModelOfDir(d) == [i \in DOMAIN d |-> IF d[i] = "_" THEN "/" ELSE d[i]]

\* DownloadService.get_downloaded_models: one name for every directory that
\* holds download_complete.json.
GetDownloadedModels(marked) == {ModelOfDir(d) : d \in marked}

\* Characters of a model name; characters in a model name.
ModelNameAlphabet == {"o", "/", "_"}
MaxModelNameLen == 3
AllModelNames == Seqs(ModelNameAlphabet, MaxModelNameLen)

\* The downloads of up to two models have completed: each has written the
\* marker of its directory.
InitListing ==
    /\ \E m1, m2 \in AllModelNames : call_in = {m1, m2}
    /\ call_out = NoCall
    /\ prompt_configs = {}
    /\ NoModelLoaded
    /\ download_status = [m \in ModelNames |-> NoStatus]
    /\ active_downloads = [m \in ModelNames |-> NoTask]
    /\ tasks = <<>>
    /\ model_dirs = {DirName(m) : m \in call_in}
    /\ markers = {DirName(m) : m \in call_in}
    /\ reply = NoReply
    /\ api_key = FALSE
    /\ backend = "simple"
    /\ collections = [c \in Names |-> Absent]
    /\ pending = {}
    /\ nextId = 1
    /\ quota = 0
    /\ named = {}
    /\ failed = {}
    /\ last = NoResult

ListingCall ==
    /\ ~call_out.done
    /\ call_out' = Returned(GetDownloadedModels(markers))
    /\ UNCHANGED <<svars, dvars, call_in, prompt_configs, mvars>>

SpecListing == InitListing /\ [][ListingCall]_vars

\* -------------------------------------------------- Hugging Face generation
\* The model _generate_huggingface falls back to when a load fails.
FallbackModel == <<"d">>

\* Names a generation request may carry, none of them a GGUF model.
HfModels == ModelNames \cup {FallbackModel}

\* What loading a model and its tokenizer with from_pretrained may do: both
\* load, the model fails to load, or the model loads and every tokenizer
\* attempt fails.
Loads == {"ok", "model_fails", "tokenizer_fails"}

\* The caches after the `if name not in self.transformers_models` block run
\* for name: the model is stored before its tokenizer is loaded.
LoadInto(models, toks, name, load) ==
    IF name \in models THEN [models |-> models, toks |-> toks, raised |-> FALSE]
    ELSE CASE load = "ok" ->
                [models |-> models \cup {name}, toks |-> toks \cup {name},
                 raised |-> FALSE]
           [] load = "model_fails" ->
                [models |-> models, toks |-> toks, raised |-> TRUE]
           [] OTHER ->
                [models |-> models \cup {name}, toks |-> toks, raised |-> TRUE]

\* Whether cuda_available is bound when `if cuda_available:` reads it after
\* the tokenizer call: it is assigned only inside the block that loads a
\* model not yet in transformers_models.
CudaAvailableBound(cached, raised) == ~cached

\* ModelService._generate_huggingface with mock mode off, and what
\* generate_response makes of it: the answer and the caches after the call.
\* load and fallback say what the loads would do, generation whether
\* model.generate succeeds.
GenerateHuggingface(models, toks, name, load, fallback, generation) ==
    LET cached == name \in models
        first == LoadInto(models, toks, name, load)
        second == IF first.raised
                  THEN LoadInto(first.models, first.toks, FallbackModel, fallback)
                  ELSE first
        served == IF first.raised THEN FallbackModel ELSE name
        answer(reason, err, generated) ==
            [models |-> second.models, toks |-> second.toks,
             response |-> [model |-> name, finish_reason |-> reason, err |-> err,
                           cached |-> cached,
                           reloaded |-> second.models # models \/ second.toks # toks,
                           generated |-> generated, generation |-> FALSE]]
    IN  IF second.raised THEN answer("error", "load", FALSE)
        ELSE IF served \notin second.toks THEN answer("error", "key_error", FALSE)
        ELSE IF ~CudaAvailableBound(cached, first.raised)
        THEN answer("error", "unbound_local", FALSE)
        ELSE IF ~generation THEN answer("error", "generation", FALSE)
        ELSE answer("stop", "none", TRUE)

\* POST /models/generate for a Hugging Face model.
GenerateRequest(name, load, fallback, generation) ==
    /\ ~call_out.done
    /\ reply = NoReply
    /\ LET r == GenerateHuggingface(transformers_models, tokenizers, name, load,
                                    fallback, generation)
       IN  /\ transformers_models' = r.models
           /\ tokenizers' = r.toks
           /\ call_out' = Returned([r.response EXCEPT !.generation = generation])
    /\ UNCHANGED <<svars, dvars, call_in, prompt_configs>>

\* The answer of the generation reaches its caller.
RespondGenerate ==
    /\ call_out.done
    /\ call_out' = NoCall
    /\ UNCHANGED <<svars, dvars, call_in, prompt_configs, mvars>>

InitGenerate ==
    /\ NoSingleCall
    /\ IdleTracker
    /\ api_key = FALSE
    /\ backend = "simple"
    /\ collections = [c \in Names |-> Absent]
    /\ pending = {}
    /\ nextId = 1
    /\ quota = 0
    /\ named = {}
    /\ failed = {}
    /\ last = NoResult

NextGenerate ==
    \/ \E name \in HfModels, load \in Loads, fallback \in Loads,
          generation \in BOOLEAN :
            GenerateRequest(name, load, fallback, generation)
    \/ RespondGenerate
    \/ \E m \in HfModels : OffloadModel(m)
    \/ RespondTracker

SpecGenerate == InitGenerate /\ [][NextGenerate]_vars

\* ------------------------------------------------------------------- claims
Lists(col) == <<col.documents, col.metadatas, col.ids, col.vectors>>

\* The lexical fallback keeps no vectors; every other store keeps one per
\* chunk.
Aligned(col) ==
    /\ Len(col.documents) = Len(col.metadatas)
    /\ Len(col.documents) = Len(col.ids)
    /\ backend # "simple" => Len(col.documents) = Len(col.vectors)

\* C1: a collection that only successful ingestions have touched holds as
\* many chunk texts as vectors, metadata records and ids, on every backend.
C1_AlignedAfterSuccess ==
    \A c \in Names :
        (collections[c].exists /\ c \notin failed) => Aligned(collections[c])

\* C2: an ingestion that fails leaves the chunk texts, metadata records, ids
\* and vectors of its collection exactly as they were before the call.
C2_FailedIngestionChangesNothing ==
    [][\A c \in Names :
          (last = NoResult /\ last'.op \in {"upload", "add"} /\ last'.coll = c
             /\ last'.status = "error")
          => Lists(collections'[c]) = Lists(collections[c])]_vars

\* The counts add_to_collection was called with are all equal (no metadata
\* argument stands for one default record per document).
EqualArity(args) ==
    /\ args[1] = args[2]
    /\ args[3] \in {0, args[1]}

\* C3: add_to_collection called with unequal numbers of chunks, vectors and
\* metadata records fails.
C3_ArityMismatchFails ==
    (last.op = "add" /\ collections[last.coll].exists /\ ~EqualArity(last.args))
        => last.status = "error"

Contiguous(seq) ==
    \A i \in DOMAIN seq : \A j \in DOMAIN seq :
        (i < j /\ seq[i] = seq[j]) => \A k \in i..j : seq[k] = seq[i]

Tags(seq) == {seq[i] : i \in DOMAIN seq}

First(seq, t) == CHOOSE i \in DOMAIN seq : seq[i] = t /\ \A j \in 1..(i - 1) : seq[j] # t

SameOrder(s1, s2) ==
    \A t \in Tags(s1) \cap Tags(s2) : \A u \in Tags(s1) \cap Tags(s2) :
        First(s1, t) < First(s1, u) <=> First(s2, t) < First(s2, u)

\* C4: on every backend of RAGService the entries one upload appends form one
\* contiguous block in each list, the blocks of two uploads appear in the
\* same order in the texts and in the vectors, and no upload is suspended
\* with any of its entries already in the collection.
C4_AtomicAppend ==
    backend \in RagBackends =>
        /\ \A c \in Names :
             /\ \A l \in 1..4 : Contiguous(Lists(collections[c])[l])
             /\ SameOrder(collections[c].documents, collections[c].vectors)
        /\ \A p \in pending : \A l \in 1..4 :
             p.id \notin Tags(Lists(collections[p.coll])[l])

\* Two uploads to one collection overlapped: the one that started second has
\* appended its block first, and both blocks are in.
C4_Witness ==
    /\ backend = "faiss"
    /\ \E c \in Names :
         /\ Len(collections[c].vectors) >= 2
         /\ collections[c].vectors[1] = 2
         /\ collections[c].vectors[Len(collections[c].vectors)] = 1
         /\ collections[c].documents[1] = 2

\* C5: a query that answers returns at most min(top_k, chunks stored)
\* retrieved documents.
C5_AtMostMinTopKSize ==
    (last.op = "query" /\ last.status = "ok") => last.n <= last.bound

\* C6: a query against a collection that exists and holds no chunk answers
\* with no retrieved document and raises nothing (the embedding model, where
\* one is used, having loaded).
C6_EmptyCollectionEmptyAnswer ==
    (last.op = "query" /\ collections[last.coll].exists
       /\ Len(collections[last.coll].documents) = 0 /\ last.err # "embedding")
        => (last.status = "ok" /\ last.n = 0)

C8_GenerationFailureAbsorbed ==
    (last.op = "query" /\ last.genFailed)
        => (last.http = 200 /\ last.answer \in {"apology", "sorry"})

\* The download tasks of model m that have not ended and that nobody has
\* cancelled.
RunningTasks(m) ==
    {t \in DOMAIN tasks : tasks[t].model = m /\ tasks[t].pc # "done"
                          /\ ~tasks[t].cancelled}

\* C9: for every model at most one download task runs at a time, whatever
\* the interleaving of download requests, task steps and delete_model calls.
C9_OneTaskPerModel ==
    \A m \in ModelNames : Cardinality(RunningTasks(m)) <= 1

StatusMove(a, b) ==
    \/ a = b
    \/ b = "none"
    \/ a = "none" /\ b = "downloading"
    \/ a = "downloading" /\ b \in {"completed", "failed"}

\* C11: the status of a model's record moves only from absent to downloading
\* and from downloading to completed or failed; completed and failed are
\* terminal.
C11_StatusMachine ==
    [][\A m \in ModelNames :
          StatusMove(download_status[m].status, download_status'[m].status)]_vars

\* C12: with no Hugging Face token configured the record of a gated model is
\* never downloading, and a download request for it never answers
\* downloading.
C12_GatedNeverDownloading ==
    \A m \in GatedModels :
        ~api_key =>
            /\ download_status[m].status # "downloading"
            /\ ~(reply.op = "download" /\ reply.model = m
                   /\ reply.status = "downloading")

\* Task t ends in this step.
TaskEnds(t) == tasks[t].pc # "done" /\ tasks'[t].pc = "done"

\* C20: under fair scheduling every download task that was started ends, and
\* unless the model was deleted under it, it ends with the model's handle
\* removed and the record failed, or completed with the marker written.
C20_TaskEndsSettled ==
    /\ [][\A t \in DOMAIN tasks :
            (TaskEnds(t) /\ ~tasks[t].deleted) =>
                LET m == tasks[t].model
                IN  /\ active_downloads'[m] = NoTask
                    /\ \/ download_status'[m].status = "failed"
                       \/ /\ download_status'[m].status = "completed"
                          /\ DirName(m) \in markers']_vars
    /\ \A t \in 1..MaxTasks :
         (t \in DOMAIN tasks /\ tasks[t].pc # "done")
            ~> (t \in DOMAIN tasks /\ tasks[t].pc = "done")

\* A comparison entry that carries finish_reason "error".
ErrorEntry(e) == "finish_reason" \in DOMAIN e /\ e.finish_reason = "error"

\* C13: a comparison answers 200 with one entry per requested name, in
\* request order, and exactly the entries of the models whose provider call
\* threw carry finish_reason "error".
C13_OneEntryPerModel ==
    call_out.done =>
        /\ call_out.value.http = 200
        /\ Len(call_out.value.responses) = Len(call_in.models)
        /\ \A i \in 1..Len(call_in.models) :
             /\ call_out.value.responses[i].model_name = call_in.models[i]
             /\ ErrorEntry(call_out.value.responses[i])
                  <=> call_in.calls[i] = "raises"

\* C14: sanitizing a sanitized collection name changes nothing.
C14_SanitizeIdempotent ==
    call_out.done => call_out.value.twice = call_out.value.once

\* C15: an upload whose file has another extension than .pdf, .txt, .md, or
\* more than 50 MB, or no content, is answered with HTTP 400.
C15_InvalidUploadIs400 ==
    (last.op = "upload" /\ last.err \in {"file_type", "too_large", "empty"})
        => last.http = 400

\* C16: getting, updating or deleting a prompt configuration that is not
\* stored, and deleting a collection that does not exist, answer HTTP 404
\* and change neither store.
C16_MissingIs404 ==
    [][(last = NoResult /\ last'.op \in {"delete", "config_get",
                                          "config_update", "config_delete"}
          /\ last'.http # 0
          /\ IF last'.op = "delete" THEN ~collections[last'.coll].exists
             ELSE last'.coll \notin prompt_configs)
       => (/\ last'.http = 404
           /\ collections' = collections
           /\ prompt_configs' = prompt_configs)]_vars

\* C17: delete_collection answers false, and raises nothing, for a name that
\* does not exist and true for one that does, on every store.
C17_DeleteAnswersExistence ==
    [][(last = NoResult /\ last'.op = "delete")
       => (/\ last'.status = "ok"
           /\ last'.ret = IF collections[last'.coll].exists THEN "true"
                          ELSE "false")]_vars

\* C18: an upload or a creation naming a collection that exists hands back
\* that collection, and the description, tags, is_public and created_at the
\* collection carries stay the ones of the call that created it.
C18_ExistingMetadataKept ==
    [][(last = NoResult /\ last'.op \in {"upload", "create"}
          /\ collections[last'.coll].exists)
       => (/\ collections'[last'.coll].meta = collections[last'.coll].meta
           /\ last'.op = "create" => last'.status = "ok")]_vars

\* C19: one sequence of uploads, queries, listings, statistics requests and
\* deletions gives its caller the same observations (success or failure,
\* sizes, returned booleans) on ChromaDB, on FAISS and on the lexical store.
C19_BackendsAgree ==
    call_out.done =>
        \A b1, b2 \in RagBackends : call_out.value[b1] = call_out.value[b2]

\* C21: when an offload or a delete of a model whose download task is pending
\* returns, every task of the model that has not ended is cancelled, and
\* neither the model's record nor its handle remains.
C21_OffloadDeleteCancels ==
    [][(reply = NoReply /\ reply'.op \in {"delete", "offload"}
          /\ active_downloads[reply'.model] # NoTask)
       => LET m == reply'.model
          IN  /\ \A t \in DOMAIN tasks' :
                   (tasks'[t].model = m /\ tasks'[t].pc # "done")
                       => tasks'[t].cancelled
              /\ download_status'[m] = NoStatus
              /\ active_downloads'[m] = NoTask]_vars

\* Sum of the first n lengths of a sequence of chunk lengths.
RECURSIVE Prefix(_, _)
Prefix(lens, n) == IF n = 0 THEN 0 ELSE lens[n] + Prefix(lens, n - 1)

\* The retrieved chunks that do not fit the budget after those before them.
Overflowing(lens) == {i \in 1..Len(lens) : Prefix(lens, i) > MaxChars}

\* C22: the first retrieved chunk that overflows the character budget is in
\* the context, cut and marked with an ellipsis, and is the last one in it.
C22_OverflowingChunkTruncated ==
    (call_out.done /\ Overflowing(call_in) # {})
        => LET i == CHOOSE j \in Overflowing(call_in) :
                        \A k \in Overflowing(call_in) : j <= k
               parts == call_out.value.parts
           IN  /\ Len(parts) = i
               /\ parts[i].doc = i
               /\ parts[i].cut

\* C23: the assembled context, separators and ellipsis included, is never
\* longer than the budget of 1200 characters.
C23_ContextWithinBudget ==
    call_out.done => call_out.value.length <= MaxChars

\* The terms of the query of the call: split at whitespace, then lower-cased.
Terms == LET w == SplitWords(call_in.query)
         IN  [i \in 1..Len(w) |-> LowerText(w[i])]

\* How many terms of the query chunk i of the call holds, case ignored.
Hits(i) ==
    Cardinality({t \in 1..Len(Terms) :
                   Contains(Terms[t], LowerText(call_in.documents[i]))})

\* C24: the lexical search scores a returned chunk with the fraction of the
\* query's terms it holds, orders the answer by descending score with equal
\* scores in insertion order, and, when no chunk holds any term, answers the
\* first min(top_k, size) chunks in insertion order with the score 0.1.
C24_LexicalScoring ==
    call_out.done =>
        LET res == call_out.value
            docs == call_in.documents
        IN  IF \A i \in 1..Len(docs) : Hits(i) = 0
            THEN /\ Len(res) = Min(call_in.top_k, Len(docs))
                 /\ \A r \in 1..Len(res) :
                      res[r] = [idx |-> r, similarity_score |-> SentinelScore]
            ELSE /\ Len(res) >= 1
                 /\ \A r \in 1..Len(res) :
                      res[r].similarity_score =
                          [num |-> Hits(res[r].idx), den |-> Len(Terms)]
                 /\ \A r1, r2 \in 1..Len(res) :
                      r1 < r2 =>
                        \/ Hits(res[r1].idx) > Hits(res[r2].idx)
                        \/ /\ Hits(res[r1].idx) = Hits(res[r2].idx)
                           /\ res[r1].idx < res[r2].idx

\* Two chunks with the same positive score are both answered.
C24_Witness ==
    /\ call_out.done
    /\ Len(call_out.value) = 2
    /\ call_out.value[1].similarity_score = call_out.value[2].similarity_score
    /\ call_out.value[1].similarity_score # SentinelScore
    /\ call_in.documents[1] # call_in.documents[2]

\* The last n characters of a text, all of it when it is shorter.
LastChars(text, n) ==
    SubSeq(text, (IF Len(text) > n THEN Len(text) - n ELSE 0) + 1, Len(text))

\* C25: after a chunk is sealed, both chunkers go on with the last
\* chunk_overlap characters of the sealed chunk followed, with or without a
\* paragraph break between, by the paragraph that did not fit.
C25_OverlapSeedsNextBuffer ==
    call_out.done =>
        \A n \in 1..Len(call_out.value.seals) :
            LET seal == call_out.value.seals[n]
                kept == LastChars(seal.sealed, call_in.chunk_overlap)
            IN  \/ seal.next = kept \o seal.paragraph
                \/ seal.next = kept \o ParagraphBreak \o seal.paragraph

\* The last paragraph of the text of the call, stripped.
LastParagraph ==
    LET ps == call_out.value.paragraphs IN Strip(ps[Len(ps)])

LastChunkHolds(text) ==
    /\ call_out.value.chunks # <<>>
    /\ Contains(text, call_out.value.chunks[Len(call_out.value.chunks)])

\* C26 as stated: the empty text gives no chunk, and every other text gives
\* a last chunk that holds the text of its last paragraph.
C26_TrailingBufferFlushed ==
    call_out.done =>
        IF call_in.text = <<>> THEN call_out.value.chunks = <<>>
        ELSE LastChunkHolds(LastParagraph)

\* C26, for the texts whose last paragraph is not blank: the empty text gives
\* no chunk, and a text whose last paragraph holds a character that is not
\* whitespace gives a last chunk that holds that paragraph, stripped.
C26_LastParagraphFlushed ==
    call_out.done =>
        /\ call_in.text = <<>> => call_out.value.chunks = <<>>
        /\ LastParagraph # <<>> => LastChunkHolds(LastParagraph)

\* A text of several paragraphs was split into several chunks.
C26_Witness ==
    /\ call_out.done
    /\ Len(call_out.value.paragraphs) >= 2
    /\ Len(call_out.value.chunks) >= 2
    /\ LastParagraph # <<>>

\* C27: no chunk the chunkers return is the empty string.
C27_NoEmptyChunk ==
    call_out.done =>
        \A n \in 1..Len(call_out.value.chunks) : call_out.value.chunks[n] # <<>>

\* C28: the progress of every download record lies between 0 and 100, its
\* bytes_downloaded never exceeds its total_bytes, and its progress never
\* decreases from one downloading state to the next.
C28_ProgressAndBytes ==
    /\ [](\A m \in ModelNames :
            /\ download_status[m].progress \in 0..ProgressLast
            /\ download_status[m].bytes_downloaded <= download_status[m].total_bytes)
    /\ [][\A m \in ModelNames :
            (download_status[m].status = "downloading"
               /\ download_status'[m].status = "downloading")
              => download_status'[m].progress >= download_status[m].progress]_vars

\* C29: get_downloaded_models lists exactly the names of the models whose
\* download completed, is_model_downloaded holds of exactly the listed
\* names, and no two model names share a completion marker.
C29_NamesRoundTrip ==
    call_out.done =>
        /\ call_out.value = call_in
        /\ \A m \in AllModelNames : IsModelDownloaded(m) <=> m \in call_out.value
        /\ \A m1, m2 \in AllModelNames : DirName(m1) = DirName(m2) => m1 = m2

\* C30: a generation request for a Hugging Face model that is in the model
\* cache loads nothing, leaves the caches as they are, and answers without
\* an error whenever the generation call succeeds.
C30_CachedModelReused ==
    [][(~call_out.done /\ call_out'.done /\ call_out'.value.model \in transformers_models)
       => (/\ ~call_out'.value.reloaded
           /\ UNCHANGED mvars
           /\ call_out'.value.generation
                => call_out'.value.finish_reason = "stop")]_vars

====
